---- MODULE Spec2Model ----
(***************************************************************************)
(* One run of the data observability task of dags/observability_dag.py:    *)
(* run_observability_task calls run_observability_checks,                  *)
(* format_metrics_for_prometheus and push_metrics_to_prometheus in         *)
(* sequence, logs with print and pushes two values to XCom.                *)
(*                                                                         *)
(* Time is counted in whole seconds.  A float that the code rounds to two  *)
(* decimals is kept as a sign and a magnitude in hundredths, so that -0.0  *)
(* and 0.0 stay distinct (they print differently); float("inf") is a       *)
(* separate value.                                                         *)
(***************************************************************************)
EXTENDS Integers, Sequences, FiniteSets, TLC

\* Longest table content (rows of sales_data for the day) that is explored.
MaxLen == 3

\* Clock readings explored are 0, 9, ..., 9 * MaxTick seconds.
MaxTick == 2

\* total_seconds() / 3600 (line 134)
SecondsPerHour == 3600

\* ndigits = 2 of round(): the rounded values are whole hundredths
Hundred == 100

VARIABLES
    pc,                  \* position in run_observability_task
    ti,                  \* kwargs.get("ti") is truthy
    endpoint,            \* what the Push Gateway would answer to a POST
    source_failed,       \* the read of the data source raised in this run
    df,                  \* the DataFrame read from sales_data
    now,                 \* datetime.now() of line 129
    metrics,             \* the dict of run_observability_checks, in insertion order
    prometheus_metrics,  \* the string of format_metrics_for_prometheus
    success,             \* the value returned by push_metrics_to_prometheus
    push_calls,          \* number of calls of push_metrics_to_prometheus
    xcom,                \* the xcom_push calls made, in order
    log                  \* the lines printed, in order

vars == <<pc, ti, endpoint, source_failed, df, now, metrics, prometheus_metrics,
          success, push_calls, xcom, log>>

-----------------------------------------------------------------------------
(* Values *)

Times == {9 * i : i \in 0 .. MaxTick}

\* amount is a number or None (NULL); only its being None is read (line 143)
Amounts == {"None", "100.5"}

Records == [amount : Amounts, created_at : Times]

RECURSIVE SeqsUpTo(_, _)
SeqsUpTo(S, n) ==
    IF n = 0 THEN {<<>>}
    ELSE LET shorter == SeqsUpTo(S, n - 1)
         IN  shorter \cup {Append(s, x) : s \in {t \in shorter : Len(t) = n - 1}, x \in S}

\* The contents the sales_data table of the day can have: get_simulated_sales_data
\* stands in for the query, and run_observability_checks handles any length,
\* zero included.
Snapshots == SeqsUpTo(Records, MaxLen)

EndpointStates == {"ok", "non_success", "unreachable"}

\* A Python float as the code produces it here.
Inf == [inf |-> TRUE, neg |-> FALSE, mag |-> 0]
Fin(neg, mag) == [inf |-> FALSE, neg |-> neg, mag |-> mag]

\* the number a float stands for, in hundredths (-0.0 and 0.0 are both 0)
Hundredths(v) == IF v.neg THEN 0 - v.mag ELSE v.mag

-----------------------------------------------------------------------------
(* round(x, 2) *)

Abs(x) == IF x < 0 THEN 0 - x ELSE x

\* Ties of round(secs / 3600, 2), secs = 36 * q + 18: the double nearest to
\* secs / 3600 lies above the tie for these q and below it for the others
\* (0.125 and the like are exact and go to the even neighbour).
FreshnessTieRoundsUp == {0, 2, 3, 5, 6, 8, 9, 11, 13, 16, 19, 22, 25, 26, 27}

\* Variant: a freshness below zero is replaced by 0.0 (max(0, ...) before rounding).
round_hours_clamped(seconds) ==
    LET a == (IF seconds < 0 THEN 0 ELSE seconds) * Hundred
        q == a \div SecondsPerHour
        r == a % SecondsPerHour
        m == IF 2 * r < SecondsPerHour THEN q
             ELSE IF 2 * r > SecondsPerHour THEN q + 1
             ELSE IF q \in FreshnessTieRoundsUp THEN q + 1 ELSE q
    IN  Fin(FALSE, m)

\* round(seconds / 3600, 2) of line 149
round_hours(seconds) ==
    LET a == Abs(seconds) * Hundred
        q == a \div SecondsPerHour
        r == a % SecondsPerHour
        m == IF 2 * r < SecondsPerHour THEN q
             ELSE IF 2 * r > SecondsPerHour THEN q + 1
             ELSE IF q \in FreshnessTieRoundsUp THEN q + 1 ELSE q
    IN  Fin(seconds < 0, m)

\* round((null_count / n) * 100, 2) of line 151; a tie needs 32 to divide n and
\* is then exact in binary up to n = 128, so it goes to the even neighbour
round_percentage(null_count, n) ==
    LET a == null_count * Hundred * Hundred
        q == a \div n
        r == a % n
        m == IF 2 * r < n THEN q
             ELSE IF 2 * r > n THEN q + 1
             ELSE IF q % 2 = 0 THEN q ELSE q + 1
    IN  Fin(FALSE, m)

-----------------------------------------------------------------------------
(* run_observability_checks *)

isna(amount) == amount = "None"

\* df["created_at"].max()
newest_record_time(d) ==
    CHOOSE t \in {d[i].created_at : i \in 1 .. Len(d)} :
        \A j \in 1 .. Len(d) : d[j].created_at <= t

\* Variant: an empty table is reported as perfectly fresh.
freshness_hours_zero_if_empty(d, t) ==
    IF Len(d) > 0 THEN round_hours(t - newest_record_time(d)) ELSE Fin(FALSE, 0)

\* lines 131-136 and 149
freshness_hours(d, t) ==
    IF Len(d) > 0 THEN round_hours(t - newest_record_time(d)) ELSE Inf

\* Variant: df["amount"].count(), the rows whose amount is present.
volume_rows_count(d) ==
    Fin(FALSE, Cardinality({i \in 1 .. Len(d) : ~isna(d[i].amount)}) * Hundred)

\* lines 138-139 and 150: float(len(df))
volume_rows(d) == Fin(FALSE, Len(d) * Hundred)

\* Variant: notna() in place of isna().
null_count_notna(d) == Cardinality({i \in 1 .. Len(d) : ~isna(d[i].amount)})

\* df["amount"].isna().sum()
null_count(d) == Cardinality({i \in 1 .. Len(d) : isna(d[i].amount)})

\* lines 141-146 and 151
null_percentage(d) ==
    IF Len(d) > 0 THEN round_percentage(null_count(d), Len(d)) ELSE Fin(FALSE, 0)

\* Variant: the null percentage is left out when there is nothing to divide by.
compute_metrics_partial(d, t) ==
    IF Len(d) > 0
    THEN << <<"data_freshness_hours", freshness_hours(d, t)>>,
            <<"data_volume_rows", volume_rows(d)>>,
            <<"data_null_percentage", null_percentage(d)>> >>
    ELSE << <<"data_freshness_hours", freshness_hours(d, t)>>,
            <<"data_volume_rows", volume_rows(d)>> >>

\* the dict of lines 148-152, as its items in insertion order
compute_metrics(d, t) ==
    << <<"data_freshness_hours", freshness_hours(d, t)>>,
       <<"data_volume_rows", volume_rows(d)>>,
       <<"data_null_percentage", null_percentage(d)>> >>

-----------------------------------------------------------------------------
(* format_metrics_for_prometheus *)

\* f"{value}" of a float with at most two decimals: repr keeps one decimal at
\* least and drops a trailing zero
float_str(v) ==
    IF v.inf THEN "inf"
    ELSE LET whole == v.mag \div Hundred
             frac == v.mag % Hundred
             digits == IF frac % 10 = 0 THEN ToString(frac \div 10)
                       ELSE IF frac < 10 THEN "0" \o ToString(frac)
                       ELSE ToString(frac)
         IN  (IF v.neg THEN "-" ELSE "") \o ToString(whole) \o "." \o digits

\* sep.join(parts)
RECURSIVE join(_, _)
join(sep, parts) ==
    IF parts = <<>> THEN ""
    ELSE IF Len(parts) = 1 THEN parts[1]
    ELSE parts[1] \o sep \o join(sep, Tail(parts))

\* Variant: sorted(metrics.items()), the lines in alphabetical order of the names.
format_metrics_sorted(m) ==
    IF Len(m) = 3
    THEN join("\n", [i \in 1 .. 3 |->
                 m[<<1, 3, 2>>[i]][1] \o " " \o float_str(m[<<1, 3, 2>>[i]][2])])
    ELSE join("\n", [i \in 1 .. Len(m) |-> m[i][1] \o " " \o float_str(m[i][2])])

\* lines 170-176
format_metrics_for_prometheus(m) ==
    join("\n", [i \in 1 .. Len(m) |-> m[i][1] \o " " \o float_str(m[i][2])])

\* lines 239-241
key_value_string(m) ==
    join(", ", [i \in 1 .. Len(m) |-> m[i][1] \o "=" \o float_str(m[i][2])])

\* f"{metrics}" of line 233: the repr of the dict
dict_str(m) ==
    "{" \o join(", ", [i \in 1 .. Len(m) |->
                          "'" \o m[i][1] \o "': " \o float_str(m[i][2])]) \o "}"

-----------------------------------------------------------------------------
(* push_metrics_to_prometheus *)

\* lines 198-216: the POST is commented out and the function returns True
push_result(payload, answer) == "True"

-----------------------------------------------------------------------------
(* The run *)

Init ==
    /\ pc = "start"
    /\ ti \in BOOLEAN
    /\ endpoint \in EndpointStates
    /\ source_failed = FALSE
    /\ df = <<>>
    /\ now = 0
    /\ metrics = <<>>
    /\ prometheus_metrics = ""
    /\ success = "unset"
    /\ push_calls = 0
    /\ xcom = <<>>
    /\ log = <<>>

\* lines 229-233: run_observability_checks returns
run_observability_checks ==
    /\ pc = "start"
    /\ \E d \in Snapshots, t \in Times :
          /\ df' = d
          /\ now' = t
          /\ metrics' = compute_metrics(d, t)
          /\ log' = log \o << "Starting data observability checks...",
                              "Simulating connection to database: observability_target",
                              "Calculated metrics: " \o dict_str(compute_metrics(d, t)) >>
    /\ pc' = "format"
    /\ UNCHANGED <<ti, endpoint, source_failed, prometheus_metrics, success,
                   push_calls, xcom>>

\* Variant: the failure is caught and the run goes on with an empty table.
checks_swallow ==
    /\ pc = "start"
    /\ source_failed' = TRUE
    /\ df' = <<>>
    /\ \E t \in Times :
          /\ now' = t
          /\ metrics' = compute_metrics(<<>>, t)
    /\ log' = Append(log, "Starting data observability checks...")
    /\ pc' = "format"
    /\ UNCHANGED <<ti, endpoint, prometheus_metrics, success, push_calls, xcom>>

\* lines 122-126 and 232: the read of the data source raises; nothing in
\* run_observability_checks or run_observability_task catches it
checks_raise ==
    /\ pc = "start"
    /\ source_failed' = TRUE
    /\ log' = Append(log, "Starting data observability checks...")
    /\ pc' = "raised"
    /\ UNCHANGED <<ti, endpoint, df, now, metrics,
                   prometheus_metrics, success, push_calls, xcom>>

\* lines 235-242
format_step ==
    /\ pc = "format"
    /\ prometheus_metrics' = format_metrics_for_prometheus(metrics)
    /\ log' = Append(log, "Metrics summary: " \o key_value_string(metrics))
    /\ pc' = "push"
    /\ UNCHANGED <<ti, endpoint, source_failed, df, now, metrics, success,
                   push_calls, xcom>>

\* lines 245 and 198-216
push_metrics_to_prometheus ==
    /\ pc = "push"
    /\ push_calls' = push_calls + 1
    /\ success' = push_result(prometheus_metrics, endpoint)
    /\ log' = log \o << "Simulating push to Prometheus Push Gateway: "
                          \o "http://localhost:9091/metrics/job/data_observability",
                        "Metrics being pushed:\n" \o prometheus_metrics >>
    /\ pc' = "report"
    /\ UNCHANGED <<ti, endpoint, source_failed, df, now, metrics,
                   prometheus_metrics, xcom>>

\* Variant: the two branches of the if are swapped.
outcome_message_swapped(s) ==
    IF s = "True" THEN "Failed to push metrics to Prometheus Push Gateway"
    ELSE "Successfully pushed metrics to Prometheus Push Gateway"

\* lines 247-250
outcome_message(s) ==
    IF s = "True" THEN "Successfully pushed metrics to Prometheus Push Gateway"
    ELSE "Failed to push metrics to Prometheus Push Gateway"

\* Variant: the second xcom_push is missing.
xcom_pushes_metrics_only(task_instance, m, payload) ==
    IF task_instance THEN << <<"observability_metrics", m>> >> ELSE <<>>

\* lines 252-258
xcom_pushes(task_instance, m, payload) ==
    IF task_instance
    THEN << <<"observability_metrics", m>>, <<"prometheus_metrics", payload>> >>
    ELSE <<>>

\* lines 247-258: report the outcome, push to XCom, return None
finish ==
    /\ pc = "report"
    /\ log' = Append(log, outcome_message(success))
    /\ xcom' = xcom \o xcom_pushes(ti, metrics, prometheus_metrics)
    /\ pc' = "returned"
    /\ UNCHANGED <<ti, endpoint, source_failed, df, now, metrics,
                   prometheus_metrics, success, push_calls>>

Next ==
    \/ run_observability_checks
    \/ checks_raise
    \/ format_step
    \/ push_metrics_to_prometheus
    \/ finish

Spec == Init /\ [][Next]_vars

-----------------------------------------------------------------------------
(* Properties *)

RecognizedMetrics == {"data_freshness_hours", "data_volume_rows", "data_null_percentage"}

\* run_observability_checks has returned in this run
Computed == pc \in {"format", "push", "report", "returned"}

\* format_metrics_for_prometheus has returned in this run
Formatted == pc \in {"push", "report", "returned"}

MetricNames == {metrics[i][1] : i \in DOMAIN metrics}

HasMetric(name) == \E i \in DOMAIN metrics : metrics[i][1] = name

Metric(name) == metrics[CHOOSE i \in DOMAIN metrics : metrics[i][1] = name][2]

\* the rows of the table whose amount is absent
AbsentAmounts == {i \in DOMAIN df : df[i].amount = "None"}

\* the latest created_at of the table is t
LatestIs(t) ==
    /\ \E i \in DOMAIN df : df[i].created_at = t
    /\ \A i \in DOMAIN df : df[i].created_at <= t

Logged(line) == \E i \in DOMAIN log : log[i] = line

\* C1: whenever the metrics computation has returned, for any table content
\* (the empty one included) and any clock reading, the metric set has exactly
\* the three names data_freshness_hours, data_volume_rows and
\* data_null_percentage, each once; before that, and in a run that failed,
\* there is no metric set at all.
C1_ExactlyThreeMetrics ==
    /\ Computed => /\ Len(metrics) = 3
                   /\ MetricNames = RecognizedMetrics
    /\ ~Computed => metrics = <<>>

C1_Witness ==
    /\ pc = "format"
    /\ df = <<>>
    /\ Len(metrics) = 3

\* C2 as stated: the reported freshness is never negative, and it is 0 when
\* some record is later than now.
C2_FreshnessClamped ==
    (Computed /\ HasMetric("data_freshness_hours")) =>
        /\ Hundredths(Metric("data_freshness_hours")) >= 0
        /\ (\E i \in DOMAIN df : df[i].created_at > now) =>
               Hundredths(Metric("data_freshness_hours")) = 0

\* C2 as amended: freshness is (now - latest created_at) in hours rounded to
\* two decimals, without a clamp.  It is not negative when no record is later
\* than now; when a record is later than now it carries a minus sign, is never
\* positive, and is below zero once the skew reaches 18 seconds.
C2_FreshnessUnclamped ==
    (Computed /\ df # <<>>) =>
        /\ HasMetric("data_freshness_hours")
        /\ \A t \in Times : LatestIs(t) =>
              LET v == Metric("data_freshness_hours")
              IN  /\ ~v.inf
                  /\ 2 * Abs(Hundredths(v) * SecondsPerHour - Hundred * (now - t))
                        <= SecondsPerHour
                  /\ t <= now => (~v.neg /\ Hundredths(v) >= 0)
                  /\ t > now => (v.neg /\ Hundredths(v) <= 0)
                  /\ t - now >= 18 => Hundredths(v) < 0

C2_Witness ==
    /\ Computed
    /\ df # <<>>
    /\ \E i \in DOMAIN df : df[i].created_at > now
    /\ Hundredths(Metric("data_freshness_hours")) < 0

\* C3: push_metrics_to_prometheus returns True only when the endpoint answers
\* with success, and returns a failure when the endpoint is unreachable or
\* answers with a non-success status.
C3_PublishFollowsEndpoint ==
    success # "unset" => (success = "True" <=> endpoint = "ok")

\* C4: when the read of the data source fails the run ends by raising, which
\* is distinct from returning: no metric set is computed, no payload is
\* formatted, push_metrics_to_prometheus is not called and nothing is pushed
\* to XCom.
C4_SourceFailureStopsRun ==
    source_failed =>
        /\ pc = "raised"
        /\ metrics = <<>>
        /\ prometheus_metrics = ""
        /\ push_calls = 0
        /\ success = "unset"
        /\ xcom = <<>>

C4_Witness ==
    /\ pc = "raised"
    /\ source_failed

C7_EmptySnapshotValues ==
    (Computed /\ df = <<>>) =>
        /\ HasMetric("data_freshness_hours")
        /\ HasMetric("data_null_percentage")
        /\ Metric("data_freshness_hours") = Inf
        /\ Metric("data_null_percentage") = Fin(FALSE, 0)

C7_Witness ==
    /\ pc = "returned"
    /\ df = <<>>
    /\ Metric("data_freshness_hours").inf

\* C8: for a non-empty table data_null_percentage lies between 0 and 100 and
\* is 100 * (rows with an absent amount) / (rows), rounded to two decimals.
C8_NullPercentage ==
    (Computed /\ df # <<>>) =>
        /\ HasMetric("data_null_percentage")
        /\ LET v == Metric("data_null_percentage")
               exact == Hundred * Hundred * Cardinality(AbsentAmounts)
           IN  /\ ~v.inf
               /\ ~v.neg
               /\ v.mag <= Hundred * Hundred
               /\ 2 * Abs(v.mag * Len(df) - exact) <= Len(df)

C8_Witness ==
    /\ Computed
    /\ Len(df) = 3
    /\ Cardinality(AbsentAmounts) = 1
    /\ Metric("data_null_percentage") = Fin(FALSE, 3333)

\* C9: data_volume_rows is the number of rows of the table, as a float, and
\* 0.0 for the empty table.
C9_VolumeIsRowCount ==
    Computed =>
        /\ HasMetric("data_volume_rows")
        /\ Metric("data_volume_rows") = Fin(FALSE, Hundred * Len(df))

C9_Witness ==
    /\ Computed
    /\ Len(df) = MaxLen
    /\ \E i \in DOMAIN df : df[i].amount = "None"
    /\ Metric("data_volume_rows").mag = Hundred * MaxLen

\* C10: the payload is three lines "<name> <value>" joined by newlines, for
\* data_freshness_hours, data_volume_rows and data_null_percentage in this
\* order, with nothing before, between or after them.
C10_PayloadLines ==
    Formatted =>
        /\ Len(metrics) = 3
        /\ prometheus_metrics =
              "data_freshness_hours " \o float_str(Metric("data_freshness_hours"))
              \o "\n" \o
              "data_volume_rows " \o float_str(Metric("data_volume_rows"))
              \o "\n" \o
              "data_null_percentage " \o float_str(Metric("data_null_percentage"))

C10_Witness ==
    /\ pc = "push"
    /\ Len(df) = 3
    /\ prometheus_metrics =
          "data_freshness_hours 0.01\ndata_volume_rows 3.0\ndata_null_percentage 66.67"

====
